---- MODULE Spec2Model ----
(***************************************************************************)
(* Model of the lawnmower simulation engine, python/lawnmower_sim.py:      *)
(* class LawnmowerSim (__init__, move, execute_path).                      *)
(*                                                                         *)
(* A coordinate is a pair <<row, col>>.  The two insertion-ordered dicts   *)
(* of the class, valid_rocks and visited_cells, are sequences of distinct  *)
(* coordinates (the keys in insertion order; the values are always True).  *)
(* The message log (self.messages) is written by every method but read by  *)
(* none of them; it is not part of the model.                              *)
(*                                                                         *)
(* The reporting layer, python/lawnmower_cli_api.py: execute_and_report    *)
(* builds an engine instance of its own, runs the path and stores the      *)
(* result record in ./results under a name made of test_name and the       *)
(* wall-clock time.  Runs share nothing but that directory and the clock.  *)
(***************************************************************************)
EXTENDS Integers, Sequences, FiniteSets, TLC

\* ------------------------------------------------------------------------
\* Bounds of the model
\* ------------------------------------------------------------------------
MaxHeight == 2
MaxWidth == 2
MaxRocks == 2
MaxMoves == 2

Heights == 1..MaxHeight
Widths == 1..MaxWidth

\* Candidate obstacle coordinates: in and out of the grids above.
RockCands == {<<0, 0>>, <<0, 1>>, <<-1, 0>>}

\* Candidate start coordinates: in and out of the grids above.
StartCands == {<<0, 0>>, <<0, 1>>, <<-1, 0>>}

\* Move tokens a caller may pass: the four canonical ones, a capitalised
\* one and an unrecognised one.
Tokens == {"up", "down", "left", "right", "Down", "hover"}

RECURSIVE SeqsUpTo(_, _)
SeqsUpTo(S, n) ==
    IF n = 0 THEN {<<>>}
    ELSE LET shorter == SeqsUpTo(S, n - 1)
         IN  shorter \cup {Append(s, x) : s \in {t \in shorter : Len(t) = n - 1}, x \in S}

RockLists == SeqsUpTo(RockCands, MaxRocks)
Paths == SeqsUpTo(Tokens, MaxMoves)

\* Runs of execute_and_report: requests served by the workers of the API
\* server or invocations of the CLI.
MaxRuns == 2
Runs == 1..MaxRuns

\* test_name values a run may carry.
TestNames == {"a", "b"}

\* The wall clock advances in ticks shorter than a second.
TicksPerSecond == 2
MaxTicks == 3

\* ------------------------------------------------------------------------
\* State
\* ------------------------------------------------------------------------
VARIABLES
    grid_height, grid_width,    \* self.grid_height, self.grid_width
    rock_locations,             \* self.rock_locations: the input list, unfiltered
    valid_rocks,                \* self.valid_rocks: keys in insertion order
    total_grass_squares,        \* self.total_grass_squares
    uncut_remaining,            \* self.uncut_remaining
    all_grass_cut,              \* self.all_grass_cut
    start_arg,                  \* the start_pos argument __init__ was given
    start_pos,                  \* self.start_pos: the validated start
    last_pos,                   \* self.last_pos
    visited_cells,              \* self.visited_cells: keys in insertion order
    number_visited_cells,       \* self.number_visited_cells
    pos_history,                \* self.pos_history
    did_mower_crash,            \* self.did_mower_crash
    crash_reason,               \* self.crash_reason
    pc,                         \* where the caller is: "idle", "loop", "output"
    path,                       \* execute_path's argument
    step,                       \* number of loop iterations of execute_path completed
    clock,                      \* wall-clock time read by datetime.now(), in ticks
    report_pc,                  \* per run: "idle", "simulated", "named", "done"
    report_name,                \* per run: params['test_name']
    report_file,                \* per run: the local filename
    results                     \* the files of ./results: filename -> run whose record it holds

config == <<grid_height, grid_width, rock_locations, valid_rocks,
            total_grass_squares, start_arg, start_pos>>
run == <<uncut_remaining, all_grass_cut, last_pos, visited_cells,
         number_visited_cells, pos_history, did_mower_crash, crash_reason>>
driver == <<pc, path, step>>
report == <<clock, report_pc, report_name, report_file, results>>
vars == <<config, run, driver, report>>

\* ------------------------------------------------------------------------
\* Helpers
\* ------------------------------------------------------------------------
Range(s) == {s[i] : i \in DOMAIN s}

\* The bounds test written out in __init__ (rocks, start) and in move.
InBounds(c, h, w) == 0 <= c[1] /\ c[1] < h /\ 0 <= c[2] /\ c[2] < w

\* d[key] = True on an insertion-ordered dict: a new key goes last, an
\* existing key keeps its place.
DictSet(d, key) == IF key \in Range(d) THEN d ELSE Append(d, key)

\* Variant: the rocks kept in a list, so a repeated coordinate is kept twice.
RECURSIVE FilterRocks_NoDedupe(_, _, _, _)
FilterRocks_NoDedupe(rocks, h, w, acc) ==
    IF rocks = <<>> THEN acc
    ELSE FilterRocks_NoDedupe(Tail(rocks), h, w,
                              IF InBounds(Head(rocks), h, w)
                              THEN Append(acc, Head(rocks))
                              ELSE acc)

\* Variant: every candidate kept, in bounds or not.
RECURSIVE FilterRocks_NoBounds(_, _, _, _)
FilterRocks_NoBounds(rocks, h, w, acc) ==
    IF rocks = <<>> THEN acc
    ELSE FilterRocks_NoBounds(Tail(rocks), h, w, DictSet(acc, Head(rocks)))

\* The rock filter loop of __init__.
RECURSIVE FilterRocks(_, _, _, _)
FilterRocks(rocks, h, w, acc) ==
    IF rocks = <<>> THEN acc
    ELSE FilterRocks(Tail(rocks), h, w,
                     IF InBounds(Head(rocks), h, w)
                     THEN DictSet(acc, Head(rocks))
                     ELSE acc)

TotalGrass(h, w, rocks) == (w * h) - Len(rocks)

InitUncut(total) == total - 1

InitAllCut(uncut) == FALSE

\* Variant: the start coordinate is used as given, without the bounds check.
ValidStart_Raw(sp, h, w) == sp

ValidStart(sp, h, w) == IF InBounds(sp, h, w) THEN sp ELSE <<0, 0>>

InitVisited(arg, validated) == <<arg>>

\* Variant: the token passed to move as it was given.
lower_Identity(t) == t

\* str.lower() on the tokens of the model.
lower(t) == IF t = "Down" THEN "down" ELSE t

\* The if/elif chain of move: the in-place update of last_pos.
Candidate(pos, m) ==
    CASE m = "up"    -> <<pos[1] - 1, pos[2]>>
      [] m = "down"  -> <<pos[1] + 1, pos[2]>>
      [] m = "left"  -> <<pos[1], pos[2] - 1>>
      [] m = "right" -> <<pos[1], pos[2] + 1>>
      [] OTHER       -> pos

\* Variant: the rock check left out.
RockCrash_Never(c) == FALSE

RockCrash(c) == c \in Range(valid_rocks)

FenceCrash(c) == ~InBounds(c, grid_height, grid_width)

\* Variant: the start cell counted once more on every recomputation.
UncutAfterMove_OffByOne(total, n) == total - n - 1

UncutAfterMove(total, n) == total - n

\* Variant: the position before the move is recorded, not the candidate.
HistoryAppend_Stale(h, c) == Append(h, h[Len(h)])

\* Variant: the list object last_pos itself is appended, so every entry a
\* move recorded shows the current position.
HistoryAppend_Aliased(h, c) ==
    [i \in 1..(Len(h) + 1) |-> IF i = 1 THEN h[1] ELSE c]

\* pos_history.append of move: the candidate, as a tuple of its own.
HistoryAppend(h, c) == Append(h, c)

\* ------------------------------------------------------------------------
\* Construction
\* ------------------------------------------------------------------------
Construct(h, w, rocks, sp) ==
    LET vr == FilterRocks(rocks, h, w, <<>>)
        total == TotalGrass(h, w, vr)
        vs == ValidStart(sp, h, w)
    IN  /\ grid_height = h
        /\ grid_width = w
        /\ rock_locations = rocks
        /\ valid_rocks = vr
        /\ total_grass_squares = total
        /\ uncut_remaining = InitUncut(total)
        /\ all_grass_cut = InitAllCut(InitUncut(total))
        /\ start_arg = sp
        /\ start_pos = vs
        /\ last_pos = vs
        /\ visited_cells = InitVisited(sp, vs)
        /\ number_visited_cells = 1
        /\ pos_history = <<vs>>
        /\ did_mower_crash = FALSE
        /\ crash_reason = "None"

\* No run of execute_and_report has started, ./results holds no file of
\* these runs.
ReportInit ==
    /\ clock = 0
    /\ report_pc = [r \in Runs |-> "idle"]
    /\ report_name = [r \in Runs |-> ""]
    /\ report_file = [r \in Runs |-> <<>>]
    /\ results = <<>>

Init ==
    /\ \E h \in Heights, w \in Widths, rocks \in RockLists, sp \in StartCands :
          Construct(h, w, rocks, sp)
    /\ pc = "idle"
    /\ path = <<>>
    /\ step = 0
    /\ ReportInit

\* ------------------------------------------------------------------------
\* move
\* ------------------------------------------------------------------------
\* The body of LawnmowerSim.move for the token m.  Its return value is
\* ~did_mower_crash'.
MoveBody(m) ==
    LET c == Candidate(last_pos, m)
    IN  /\ last_pos' = c
        /\ pos_history' = HistoryAppend(pos_history, c)
        /\ IF RockCrash(c)
           THEN /\ did_mower_crash' = TRUE
                /\ crash_reason' = "Crashed into Rock"
                /\ UNCHANGED <<visited_cells, number_visited_cells,
                               uncut_remaining, all_grass_cut>>
           ELSE IF FenceCrash(c)
           THEN /\ did_mower_crash' = TRUE
                /\ crash_reason' = "Crashed into Fence"
                /\ UNCHANGED <<visited_cells, number_visited_cells,
                               uncut_remaining, all_grass_cut>>
           ELSE /\ visited_cells' = DictSet(visited_cells, c)
                /\ number_visited_cells' = Len(visited_cells')
                /\ uncut_remaining' =
                      UncutAfterMove(total_grass_squares, number_visited_cells')
                /\ all_grass_cut' = (uncut_remaining' = 0)
                /\ UNCHANGED <<did_mower_crash, crash_reason>>

MoveReturn == ~did_mower_crash'

\* A caller invokes move directly (not from inside a running execute_path:
\* the engine is single-threaded).
Move(m) ==
    /\ pc = "idle"
    /\ Len(pos_history) <= MaxMoves
    /\ MoveBody(m)
    /\ UNCHANGED <<config, driver, report>>

\* ------------------------------------------------------------------------
\* execute_path
\* ------------------------------------------------------------------------
\* Variant: no break, the loop goes on after a failed move.
LoopContinues_NoBreak(ok) == TRUE

\* Whether the for loop goes on after a move that returned ok.
LoopContinues(ok) == ok

\* Variant: the iteration does not advance, the same token is taken again.
NextStep_Stuck(s) == s

\* The for loop's advance to the next element of path.
NextStep(s) == s + 1

ExecutePathCall(p) ==
    /\ pc = "idle"
    /\ (Len(pos_history) - 1) + Len(p) <= MaxMoves
    /\ path' = p
    /\ step' = 0
    /\ pc' = IF Len(p) = 0 THEN "output" ELSE "loop"
    /\ UNCHANGED <<config, run, report>>

\* One iteration of the for loop: move(path[step].lower()), break on failure.
ExecutePathStep ==
    /\ pc = "loop"
    /\ step < Len(path)
    /\ MoveBody(lower(path[step + 1]))
    /\ step' = NextStep(step)
    /\ pc' = IF LoopContinues(MoveReturn) /\ step' < Len(path)
             THEN "loop" ELSE "output"
    /\ path' = path
    /\ UNCHANGED <<config, report>>

\* The code after the loop: the result record is built and returned; the
\* locals path and step end with the call.
ExecutePathReturn ==
    /\ pc = "output"
    /\ pc' = "idle"
    /\ path' = <<>>
    /\ step' = 0
    /\ UNCHANGED <<config, run, report>>

\* ------------------------------------------------------------------------
\* Specifications
\* ------------------------------------------------------------------------
\* Any caller: direct move calls and execute_path calls in any order.
Next ==
    \/ \E m \in Tokens : Move(m)
    \/ \E p \in Paths : ExecutePathCall(p)
    \/ ExecutePathStep
    \/ ExecutePathReturn

Spec == Init /\ [][Next]_vars

\* A fresh instance driven by one execute_path call, as execute_and_report
\* drives it.
FreshCall(p) == Len(pos_history) = 1 /\ ExecutePathCall(p)

NextRun ==
    \/ \E p \in Paths : FreshCall(p)
    \/ ExecutePathStep
    \/ ExecutePathReturn

SpecRun == Init /\ [][NextRun]_vars

\* The same, with the progress a sequential caller makes: a started loop
\* iteration and the code after the loop are carried out.
SpecRunFair ==
    /\ SpecRun
    /\ WF_vars(ExecutePathStep)
    /\ WF_vars(ExecutePathReturn)

\* ------------------------------------------------------------------------
\* execute_and_report
\* ------------------------------------------------------------------------
\* datetime.now().strftime("%Y%m%d_%H%M%S"): the time cut to whole seconds.
Timestamp(t) == t \div TicksPerSecond

\* f"./results/{params['test_name']}_{timestamp}.json"
Filename(name, t) == <<name, Timestamp(t)>>

\* open(filename, "w") and json.dump: the file is created or truncated and
\* then holds the record of the writing run.
WriteFile(files, fn, r) ==
    [f \in (DOMAIN files) \cup {fn} |-> IF f = fn THEN r ELSE files[f]]

\* Time passes.
Tick ==
    /\ clock < MaxTicks
    /\ clock' = clock + 1
    /\ UNCHANGED <<config, run, driver, report_pc, report_name, report_file,
                   results>>

\* A run is started with params carrying test_name n; it builds its own
\* engine instance, runs the path and prints the record.
Simulate(r, n) ==
    /\ report_pc[r] = "idle"
    /\ report_name' = [report_name EXCEPT ![r] = n]
    /\ report_pc' = [report_pc EXCEPT ![r] = "simulated"]
    /\ UNCHANGED <<config, run, driver, clock, report_file, results>>

\* The run reads the clock and forms its filename.
Stamp(r) ==
    /\ report_pc[r] = "simulated"
    /\ report_file' = [report_file EXCEPT ![r] = Filename(report_name[r], clock)]
    /\ report_pc' = [report_pc EXCEPT ![r] = "named"]
    /\ UNCHANGED <<config, run, driver, clock, report_name, results>>

\* The run stores its record and returns.
Save(r) ==
    /\ report_pc[r] = "named"
    /\ results' = WriteFile(results, report_file[r], r)
    /\ report_pc' = [report_pc EXCEPT ![r] = "done"]
    /\ UNCHANGED <<config, run, driver, clock, report_name, report_file>>

\* The default scenario of the CLI stands for the engine instances, which
\* are private to their runs and play no part in the file names.
InitReport ==
    /\ Construct(3, 2, <<<<0, 1>>, <<1, 1>>>>, <<0, 0>>)
    /\ pc = "idle"
    /\ path = <<>>
    /\ step = 0
    /\ ReportInit

\* Runs proceed concurrently, in separate worker processes or one after
\* another, while the clock advances.
NextReport ==
    \/ Tick
    \/ \E r \in Runs, n \in TestNames : Simulate(r, n)
    \/ \E r \in Runs : Stamp(r)
    \/ \E r \in Runs : Save(r)

SpecReport == InitReport /\ [][NextReport]_vars

\* ------------------------------------------------------------------------
\* Properties
\* ------------------------------------------------------------------------
GridCells == (0..(grid_height - 1)) \X (0..(grid_width - 1))

Visited == Range(visited_cells)

Rocks == Range(valid_rocks)

Mowable == GridCells \ Rocks

\* C1: every coordinate of visited_cells is a grid cell.
C1_VisitedInGrid ==
    \A c \in Visited : InBounds(c, grid_height, grid_width)

\* C2: visited_cells and valid_rocks have no coordinate in common.
C2_VisitedDisjointRocks == Visited \cap Rocks = {}

\* C3: uncut_remaining is never negative.
C3_UncutNonNegative == uncut_remaining >= 0

\* C4: uncut_remaining = 0 exactly when every mowable square is in
\* visited_cells.
C4_UncutZeroIffCovered == (uncut_remaining = 0) <=> (Mowable \subseteq Visited)

\* C5: all_grass_cut is true exactly when uncut_remaining = 0, in every
\* state, the one right after construction included.
C5_AllCutIffUncutZero == all_grass_cut <=> (uncut_remaining = 0)

\* C6: in every state, after construction and after every legal or crashing
\* move, uncut_remaining = total_grass_squares - |visited_cells|, counting
\* distinct coordinates.
C6_UncutIsTotalMinusVisited ==
    uncut_remaining = total_grass_squares - Cardinality(Visited)

\* C6 witness: a legal move onto a new cell and then a crashing move.
C6_Witness ==
    /\ did_mower_crash
    /\ Cardinality(Visited) >= 2
    /\ Len(pos_history) >= 3

\* C7: total_grass_squares is grid_height * grid_width minus the number of
\* distinct in-bounds coordinates of the input obstacle list, and no step
\* of move or execute_path changes it.
C7_TotalGrassConstant ==
    /\ [](total_grass_squares =
            grid_height * grid_width
            - Cardinality(Range(rock_locations) \cap GridCells))
    /\ [][total_grass_squares' = total_grass_squares]_vars

\* C7 witness: the obstacle list repeats an in-bounds coordinate, and moves
\* have been made.
C7_Witness ==
    /\ \E i, j \in DOMAIN rock_locations :
          /\ i # j
          /\ rock_locations[i] = rock_locations[j]
          /\ rock_locations[i] \in GridCells
    /\ Len(pos_history) >= 3

\* C8: once did_mower_crash is true, every later step leaves it true and
\* leaves crash_reason as the first crash set it.
C8_CrashStateSetOnce ==
    [][did_mower_crash =>
         (did_mower_crash' /\ crash_reason' = crash_reason)]_vars

\* C9: in a state where did_mower_crash is true, every later move or
\* execute_path step leaves last_pos, visited_cells, uncut_remaining and
\* all_grass_cut unchanged.
C9_CrashedIsTerminal ==
    [][did_mower_crash =>
         UNCHANGED <<last_pos, visited_cells, uncut_remaining, all_grass_cut>>]_vars

\* The position (counted from 1) of the first crashing move of path p
\* walked from pos, or Len(p) when no move crashes.
RECURSIVE FirstCrash(_, _, _)
FirstCrash(pos, p, i) ==
    IF i > Len(p) THEN Len(p)
    ELSE LET c == Candidate(pos, lower(p[i]))
         IN  IF c \in Rocks \/ c \notin GridCells THEN i
             ELSE FirstCrash(c, p, i + 1)

\* C10: execute_path on a fresh instance attempts the moves in order and
\* stops only at the first crashing move or at the end of the path: when
\* the loop is over pos_history has 1 + k entries, k the position of the
\* first crashing move or the path length, each entry is the move of the
\* path applied to the entry before it, and at all times visited_cells is
\* no longer than pos_history.
C10_HistoryLength ==
    /\ Len(visited_cells) <= Len(pos_history)
    /\ pc \in {"loop", "output"} =>
          \A i \in 2..Len(pos_history) :
              pos_history[i] = Candidate(pos_history[i - 1], lower(path[i - 1]))
    /\ pc = "loop" => Len(pos_history) - 1 < FirstCrash(start_pos, path, 1)
    /\ pc = "output" => Len(pos_history) = 1 + FirstCrash(start_pos, path, 1)

\* C10 witness: the run ended by a crash with a move of the path left over.
C10_Witness ==
    /\ pc = "output"
    /\ did_mower_crash
    /\ Len(pos_history) - 1 < Len(path)

Last(s) == s[Len(s)]

C12_CrashCellNotVisited ==
    (pc = "output" /\ did_mower_crash) => last_pos \notin Visited

\* C13: a move applied in a non-crashed state classifies its candidate: in
\* valid_rocks, a crash with reason "Crashed into Rock"; otherwise outside
\* the grid, a crash with reason "Crashed into Fence"; otherwise a legal
\* move with no crash; and move returns false exactly when the candidate
\* crashed.
C13_MoveClassifies ==
    [][(~did_mower_crash /\ pos_history' # pos_history) =>
         LET c == Last(pos_history')
         IN  /\ c \in Rocks =>
                   did_mower_crash' /\ crash_reason' = "Crashed into Rock"
             /\ (c \notin Rocks /\ c \notin GridCells) =>
                   did_mower_crash' /\ crash_reason' = "Crashed into Fence"
             /\ (c \notin Rocks /\ c \in GridCells) =>
                   ~did_mower_crash' /\ crash_reason' = crash_reason
             /\ MoveReturn <=> (c \notin Rocks /\ c \in GridCells)]_vars

\* C13 witness: the second move of an instance, made in a non-crashed
\* state, ran into a rock.
C13_Witness ==
    /\ Len(pos_history) = 3
    /\ Cardinality(Visited) = 2
    /\ crash_reason = "Crashed into Rock"
    /\ last_pos \in Rocks

\* C14: construction yields the Ready state built from the validated start:
\* start_pos is the supplied start if it is in bounds and (0,0) otherwise,
\* and before any move last_pos = start_pos, visited_cells = {start_pos},
\* pos_history = [start_pos], did_mower_crash = false and crash_reason =
\* "None".
C14_ConstructedReady ==
    Len(pos_history) = 1 =>
        /\ start_pos = IF start_arg \in GridCells THEN start_arg ELSE <<0, 0>>
        /\ last_pos = start_pos
        /\ visited_cells = <<start_pos>>
        /\ pos_history = <<start_pos>>
        /\ ~did_mower_crash
        /\ crash_reason = "None"

\* C15: a candidate coordinate of rock_locations is in valid_rocks if and
\* only if it lies within the grid bounds; valid_rocks holds only in-bounds
\* candidates, |valid_rocks| <= |rock_locations|, and a move onto an
\* out-of-bounds candidate is never a rock crash.
C15_ObstacleFilter ==
    /\ \A i \in DOMAIN rock_locations :
          (rock_locations[i] \in Rocks) <=> (rock_locations[i] \in GridCells)
    /\ Rocks \subseteq Range(rock_locations) \cap GridCells
    /\ Len(valid_rocks) <= Len(rock_locations)
    /\ (Last(pos_history) \in Range(rock_locations) \ GridCells) =>
          crash_reason # "Crashed into Rock"

\* C15 witness: the obstacle list has an in-bounds and an out-of-bounds
\* candidate, and the mower has moved onto the out-of-bounds one.
C15_Witness ==
    /\ Len(valid_rocks) = 1
    /\ Len(rock_locations) = 2
    /\ last_pos \in Range(rock_locations) \ GridCells
    /\ crash_reason = "Crashed into Fence"

\* C16: a legal move onto a cell the mower has already legally occupied
\* (the start cell included, also the (0,0) substituted for an
\* out-of-bounds start) leaves visited_cells, uncut_remaining and
\* all_grass_cut unchanged.
C16_RevisitIdempotent ==
    [][(/\ ~did_mower_crash
        /\ pos_history' # pos_history
        /\ ~did_mower_crash'
        /\ Last(pos_history') \in Range(pos_history)) =>
         UNCHANGED <<visited_cells, uncut_remaining, all_grass_cut>>]_vars

\* The coordinates of s, each once, in the order of their first occurrence.
RECURSIVE FirstOccurrences(_, _)
FirstOccurrences(s, acc) ==
    IF s = <<>> THEN acc
    ELSE FirstOccurrences(Tail(s),
                          IF Head(s) \in Range(acc) THEN acc
                          ELSE Append(acc, Head(s)))

\* pos_history without the crash-causing entry of a crashed run.
LegalHistory ==
    IF did_mower_crash
    THEN SubSeq(pos_history, 1, Len(pos_history) - 1)
    ELSE pos_history

\* C17: the visited_cells sequence of the result record equals the
\* sequence of first occurrences of the coordinates of pos_history, the
\* crash-causing entry left out: it starts with the validated start cell
\* and lists each legally occupied cell once, in first-visit order.
C17_VisitedIsFirstVisitOrder ==
    pc = "output" =>
        /\ visited_cells = FirstOccurrences(LegalHistory, <<>>)
        /\ visited_cells[1] = start_pos

\* C18: execute_path terminates for every finite path.  Every call
\* returns (the caller is always idle again later), it makes at most
\* len(path) move calls, and no move is retried or rolled back: each loop
\* iteration adds exactly one entry to pos_history.
C18_ExecutePathTerminates ==
    /\ []<>(pc = "idle")
    /\ [](pc # "idle" =>
            /\ step <= Len(path)
            /\ Len(pos_history) = 1 + step)

\* C18 witness: a call is about to return after a crash on its second move.
C18_Witness ==
    /\ pc = "output"
    /\ step = 2
    /\ did_mower_crash

\* The unit offset of a direction token, whatever its letter case; no
\* offset for a token that names no direction.
Offset(t) ==
    CASE t \in {"up", "Up", "UP"}          -> <<-1, 0>>
      [] t \in {"down", "Down", "DOWN"}    -> <<1, 0>>
      [] t \in {"left", "Left", "LEFT"}    -> <<0, -1>>
      [] t \in {"right", "Right", "RIGHT"} -> <<0, 1>>
      [] OTHER                             -> <<0, 0>>

\* C19: a recognised direction moves the candidate by exactly one unit
\* offset.  In an execute_path run on a fresh instance the i-th entry
\* appended to pos_history is the entry before it plus the offset of the
\* i-th token, in any letter case: up (-1,0), down (+1,0), left (0,-1),
\* right (0,+1); and after a legal move last_pos is that coordinate.
C19_UnitOffsets ==
    (pc \in {"loop", "output"} /\ Len(pos_history) = 1 + step) =>
        /\ \A i \in 1..step :
              LET from == pos_history[i]
                  to == pos_history[i + 1]
                  d == Offset(path[i])
              IN  to = <<from[1] + d[1], from[2] + d[2]>>
        /\ ~did_mower_crash => last_pos = Last(pos_history)

\* C19 witness: a run made a legal move for a capitalised token.
C19_Witness ==
    /\ pc = "output"
    /\ ~did_mower_crash
    /\ Len(pos_history) = 1 + step
    /\ \E i \in 1..step : path[i] = "Down"

Recognised == {"up", "down", "left", "right"}

\* A move call whose token names no direction: made directly, or by a loop
\* iteration of execute_path for a token that lower-cases to none.
UnrecognisedMove ==
    \/ \E m \in Tokens \ Recognised : Move(m)
    \/ /\ ExecutePathStep
       /\ lower(path[step + 1]) \notin Recognised

\* C20: a move call in a non-crashed state with a token outside {up, down,
\* left, right} leaves last_pos, visited_cells, uncut_remaining,
\* all_grass_cut, did_mower_crash and crash_reason unchanged; its only
\* effect is one more pos_history entry, a duplicate of the prior position.
C20_UnrecognisedIsNoOp ==
    [][(~did_mower_crash /\ UnrecognisedMove) =>
         /\ UNCHANGED <<last_pos, visited_cells, uncut_remaining,
                        all_grass_cut, did_mower_crash, crash_reason>>
         /\ pos_history' = Append(pos_history, last_pos)]_vars

\* A step that is a move call: made directly or by a loop iteration.
MoveCall == (\E m \in Tokens : Move(m)) \/ ExecutePathStep

\* C21: pos_history is append-only.  Construction records exactly one
\* entry, every move call appends exactly one entry, and no step removes or
\* alters an entry already recorded (the later in-place updates of last_pos
\* do not reach them).
C21_HistoryAppendOnly ==
    /\ Len(pos_history) = 1
    /\ [][/\ Len(pos_history') >= Len(pos_history)
          /\ SubSeq(pos_history', 1, Len(pos_history)) = pos_history
          /\ Len(pos_history') = Len(pos_history) + (IF MoveCall THEN 1 ELSE 0)]_vars

\* C21 witness: two moves were recorded and last_pos has moved on from the
\* entry the first of them recorded.
C21_Witness ==
    /\ Len(pos_history) = 3
    /\ pos_history[2] # last_pos
    /\ pos_history[2] # pos_history[1]

\* C22: coverage is monotone over a path run by execute_path, whatever the
\* construction: the number of visited cells never decreases, uncut_remaining
\* never increases, and all_grass_cut, once true, stays true.
C22_CoverageMonotone ==
    [][/\ Len(visited_cells') >= Len(visited_cells)
       /\ uncut_remaining' <= uncut_remaining
       /\ (all_grass_cut => all_grass_cut')]_vars

\* C23: crash flag, crash reason and position agree in every state of a
\* fresh instance driven by execute_path: did_mower_crash is false iff
\* crash_reason is "None"; after a rock crash last_pos is a valid rock; after
\* a fence crash last_pos is outside the grid; without a crash last_pos is
\* inside the grid.
C23_CrashStateAgrees ==
    /\ (~did_mower_crash) <=> (crash_reason = "None")
    /\ crash_reason \in {"None", "Crashed into Rock", "Crashed into Fence"}
    /\ (crash_reason = "Crashed into Rock" => last_pos \in Rocks)
    /\ (crash_reason = "Crashed into Fence" => last_pos \notin GridCells)
    /\ (~did_mower_crash => last_pos \in GridCells)

\* C23 witness: a run whose second move crashed into a rock, read at output.
C23_Witness ==
    /\ pc = "output"
    /\ step = 2
    /\ crash_reason = "Crashed into Rock"
    /\ pos_history[2] \in GridCells \ Rocks

\* C24: every run of execute_and_report stores its record under a
\* filename of its own, also for runs with the same test_name that overlap
\* or fall within the same clock second, so the file of a finished run still
\* holds that run's record.
C24_DistinctResultFiles ==
    /\ \A r1, r2 \in Runs :
          (/\ r1 # r2
           /\ report_pc[r1] \in {"named", "done"}
           /\ report_pc[r2] \in {"named", "done"})
          => report_file[r1] # report_file[r2]
    /\ \A r \in Runs :
          report_pc[r] = "done" => results[report_file[r]] = r

====
